---------------------------- MODULE Spec2Model ----------------------------
(***************************************************************************)
(* A model of three parts of hpqc:                                         *)
(*   - package hybrid  (kem/hybrid/hybrid.go, src/unnamed/part_001):       *)
(*     the legacy two-KEM hybrid scheme;                                   *)
(*   - package ed25519 (sign/ed25519, src/unnamed/part_000): the key       *)
(*     wrapper types and the sign.Scheme unmarshal functions;              *)
(*   - package schemes (src/kem/schemes/schemes.go): the KEM registry.     *)
(*                                                                         *)
(* Byte strings are sequences of integers 0..255; a nil slice is << >>.    *)
(* A Go interface value is a record whose field typ names the dynamic      *)
(* type ("nil" for the nil interface).  Errors are strings, "nil" for the  *)
(* nil error.  A panic is the flag panicked of an operation's outcome.     *)
(***************************************************************************)
EXTENDS Integers, Sequences, FiniteSets, TLC

VARIABLES
    initDone,        \* schemes: init() has run
    heap,            \* schemes: the backing arrays, by name
    allSchemes,      \* schemes: the slice header of var allSchemes
    allSchemeNames,  \* schemes: the map var allSchemeNames
    callerSlice,     \* schemes: the slice a caller got from All(), [has, s]
    firstAll,        \* schemes: what the first call of All() returned, [has, val]
    nWrites,         \* schemes: how many writes callers made
    rret,            \* schemes: the last call and what it returned
    held,            \* hybrid: the key pair the caller holds, [pk, sk]
    edPub,           \* ed25519: a PublicKey object of the caller
    ret              \* hybrid, ed25519: the last call, its inputs and outcome

kemVars == <<held, ret, edPub>>
regVars == <<initDone, heap, allSchemes, allSchemeNames, callerSlice, firstAll,
             nWrites, rret>>
vars == <<held, ret, edPub, initDone, heap, allSchemes, allSchemeNames,
          callerSlice, firstAll, nWrites, rret>>

-----------------------------------------------------------------------------
(* Bounds of the model.                                                    *)

\* Size in bytes of every key, seed and ciphertext of the leaf KEM K1.
SizeK1 == 1
\* Size in bytes of every key, seed and ciphertext of the leaf KEM K2.
SizeK2 == 2
\* Number of distinct base values the seeds are built from.
NumSeedBases == 2
\* Number of writes callers make into slices returned by All().
MaxWrites == 2

-----------------------------------------------------------------------------
(* Byte strings.                                                           *)

Nil == << >>

Concat(a, b) == a \o b

\* Go's s[:n] and s[n:] for 0 <= n <= len(s).
Take(s, n) == SubSeq(s, 1, n)
Drop(s, n) == SubSeq(s, n + 1, Len(s))

RECURSIVE XorBits(_, _, _)
XorBits(a, b, n) ==
    IF n = 0 THEN 0
    ELSE ((a + b) % 2) + 2 * XorBits(a \div 2, b \div 2, n - 1)

\* Byte-wise XOR of two bytes.
XorByte(a, b) == XorBits(a, b, 8)


-----------------------------------------------------------------------------
(* util.PairSplitPRF: PRF(ss1 || cct) XOR PRF(ss2 || cct), cct = ct1||ct2, *)
(* with Blake2b-256 as the PRF.  Blake2b is stood in for by a position-    *)
(* weighted checksum with an output of the same length.                    *)

\* Output length of Blake2b-256 in bytes.
HashSize == 32

RECURSIVE WeightedSum(_, _, _)
WeightedSum(x, i, j) ==
    IF j > Len(x) THEN 0 ELSE x[j] * (i + j) + WeightedSum(x, i, j + 1)

PRF(x) == [i \in 1..HashSize |-> (WeightedSum(x, i, 1) + Len(x) + i) % 256]

Xor(a, b) == [i \in 1..HashSize |-> XorByte(a[i], b[i])]

PairSplitPRF(ss1, ss2, cct1, cct2) ==
    LET cct == Concat(cct1, cct2)
    IN  Xor(PRF(Concat(ss1, cct)), PRF(Concat(ss2, cct)))

-----------------------------------------------------------------------------
(* The schemes.  K1 and K2 are two leaf KEMs of different Go types; HA, HB *)
(* and HC are built by hybrid.New.                                         *)

Leaves == {"K1", "K2"}
Hybrids == {"HA", "HB", "HC"}
Schemes == Leaves \cup Hybrids

IsHybrid(s) == s \in Hybrids

\* hybrid.New(name, first, second): the fields of the Scheme it returns.
New(name, first, second) == [name |-> name, first |-> first, second |-> second]

HybridOf(s) ==
    CASE s = "HA" -> New("A", "K1", "K2")
      [] s = "HB" -> New("B", "K2", "K1")
      [] s = "HC" -> New("C", "K1", "K2")

First(s) == HybridOf(s).first
Second(s) == HybridOf(s).second

\* Scheme.Name
Name(s) == HybridOf(s).name

\* The nil interface value, for keys.
NilKey == [typ |-> "nil"]

HybridPublicKeyType == "hybrid.PublicKey"
HybridPrivateKeyType == "hybrid.PrivateKey"

-----------------------------------------------------------------------------
(* The leaf KEMs: a KEM that meets the kem.Scheme contract (fixed sizes,   *)
(* deterministic derivation, Decapsulate inverts Encapsulate, keys marshal *)
(* to their declared size and unmarshal back).                             *)

LeafSize(l) == IF l = "K1" THEN SizeK1 ELSE SizeK2
LeafSharedKeySize(l) == LeafSize(l) + 1
LeafTag(l) == IF l = "K1" THEN 1 ELSE 2
LeafPublicKeyType(l) == IF l = "K1" THEN "k1.PublicKey" ELSE "k2.PublicKey"
LeafPrivateKeyType(l) == IF l = "K1" THEN "k1.PrivateKey" ELSE "k2.PrivateKey"

LeafPublicKey(l, bytes) == [typ |-> LeafPublicKeyType(l), sch |-> l, bytes |-> bytes]
LeafPrivateKey(l, bytes) == [typ |-> LeafPrivateKeyType(l), sch |-> l, bytes |-> bytes]

\* The public key bytes of a private key: never starts with byte 255.
LeafPublicBytes(l, sk) == [i \in 1..Len(sk) |-> (sk[i] + LeafTag(l)) % 255]

LeafSecret(l, pk, r) ==
    [i \in 1..LeafSharedKeySize(l) |->
        (3 * pk[((i - 1) % Len(pk)) + 1] + r[((i - 1) % Len(r)) + 1] + i) % 256]

LeafDeriveKeyPair(l, seed) ==
    IF Len(seed) # LeafSize(l)
    THEN [pk |-> NilKey, sk |-> NilKey, panicked |-> TRUE, calls |-> << >>]
    ELSE [pk |-> LeafPublicKey(l, LeafPublicBytes(l, seed)),
          sk |-> LeafPrivateKey(l, seed), panicked |-> FALSE, calls |-> << >>]

LeafEncapsulateDeterministically(l, pk, seed) ==
    IF Len(seed) # LeafSize(l)
    THEN [ct |-> Nil, ss |-> Nil, err |-> "ErrSeedSize", calls |-> << >>]
    ELSE IF pk.typ # LeafPublicKeyType(l)
    THEN [ct |-> Nil, ss |-> Nil, err |-> "ErrTypeMismatch", calls |-> << >>]
    ELSE [ct |-> [i \in 1..Len(seed) |-> (seed[i] + 7) % 256],
          ss |-> LeafSecret(l, pk.bytes, seed), err |-> "nil", calls |-> << >>]

LeafDecapsulate(l, sk, ct) ==
    IF Len(ct) # LeafSize(l)
    THEN [ss |-> Nil, err |-> "ErrCiphertextSize", calls |-> << >>]
    ELSE IF sk.typ # LeafPrivateKeyType(l)
    THEN [ss |-> Nil, err |-> "ErrTypeMismatch", calls |-> << >>]
    ELSE [ss |-> LeafSecret(l, LeafPublicBytes(l, sk.bytes),
                            [i \in 1..Len(ct) |-> (ct[i] + 249) % 256]),
          err |-> "nil", calls |-> << >>]

LeafUnmarshalBinaryPublicKey(l, buf) ==
    IF Len(buf) # LeafSize(l)
    THEN [key |-> NilKey, err |-> "ErrPubKeySize", calls |-> << >>]
    ELSE IF buf[1] = 255
    THEN [key |-> NilKey, err |-> "ErrInvalidEncoding", calls |-> << >>]
    ELSE [key |-> LeafPublicKey(l, buf), err |-> "nil", calls |-> << >>]

LeafUnmarshalBinaryPrivateKey(l, buf) ==
    IF Len(buf) # LeafSize(l)
    THEN [key |-> NilKey, err |-> "ErrPrivKeySize", calls |-> << >>]
    ELSE [key |-> LeafPrivateKey(l, buf), err |-> "nil", calls |-> << >>]

-----------------------------------------------------------------------------
(* Package hybrid.  A call through the kem.Scheme or key interface is      *)
(* dispatched on the dynamic type: Kem...(s, ...) for a scheme, Key...(k)  *)
(* for a key.  An outcome carries calls, the component invocations the     *)
(* hybrid method made itself, in order.                                    *)

RECURSIVE PublicKeySize(_)
RECURSIVE PrivateKeySize(_)
RECURSIVE SeedSize(_)
RECURSIVE SharedKeySize(_)
RECURSIVE CiphertextSize(_)
RECURSIVE EncapsulationSeedSize(_)
RECURSIVE DeriveKeyPair(_, _)
RECURSIVE EncapsulateDeterministically(_, _, _)
RECURSIVE Decapsulate(_, _, _)
RECURSIVE UnmarshalBinaryPublicKey(_, _)
RECURSIVE UnmarshalBinaryPrivateKey(_, _)
RECURSIVE PublicKeyMarshalBinary(_)
RECURSIVE PrivateKeyMarshalBinary(_)
RECURSIVE PublicKeyEqual(_, _)
RECURSIVE PrivateKeyEqual(_, _)
RECURSIVE Public(_)

KemPublicKeySize(s) == IF IsHybrid(s) THEN PublicKeySize(s) ELSE LeafSize(s)
KemPrivateKeySize(s) == IF IsHybrid(s) THEN PrivateKeySize(s) ELSE LeafSize(s)
KemSeedSize(s) == IF IsHybrid(s) THEN SeedSize(s) ELSE LeafSize(s)
KemSharedKeySize(s) == IF IsHybrid(s) THEN SharedKeySize(s) ELSE LeafSharedKeySize(s)
KemCiphertextSize(s) == IF IsHybrid(s) THEN CiphertextSize(s) ELSE LeafSize(s)
KemEncapsulationSeedSize(s) ==
    IF IsHybrid(s) THEN EncapsulationSeedSize(s) ELSE LeafSize(s)
KemDeriveKeyPair(s, seed) ==
    IF IsHybrid(s) THEN DeriveKeyPair(s, seed) ELSE LeafDeriveKeyPair(s, seed)
KemEncapsulateDeterministically(s, pk, seed) ==
    IF IsHybrid(s) THEN EncapsulateDeterministically(s, pk, seed)
    ELSE LeafEncapsulateDeterministically(s, pk, seed)
KemDecapsulate(s, sk, ct) ==
    IF IsHybrid(s) THEN Decapsulate(s, sk, ct) ELSE LeafDecapsulate(s, sk, ct)
KemUnmarshalBinaryPublicKey(s, buf) ==
    IF IsHybrid(s) THEN UnmarshalBinaryPublicKey(s, buf)
    ELSE LeafUnmarshalBinaryPublicKey(s, buf)
KemUnmarshalBinaryPrivateKey(s, buf) ==
    IF IsHybrid(s) THEN UnmarshalBinaryPrivateKey(s, buf)
    ELSE LeafUnmarshalBinaryPrivateKey(s, buf)

\* Scheme.PublicKeySize
PublicKeySize(sch) == KemPublicKeySize(First(sch)) + KemPublicKeySize(Second(sch))

\* Scheme.PrivateKeySize
PrivateKeySize(sch) == KemPrivateKeySize(First(sch)) + KemPrivateKeySize(Second(sch))

\* Scheme.SeedSize
SeedSize(sch) == KemSeedSize(First(sch)) + KemSeedSize(Second(sch))

\* Scheme.SharedKeySize
SharedKeySize(sch) == KemSharedKeySize(First(sch)) + KemSharedKeySize(Second(sch))

\* Scheme.CiphertextSize
CiphertextSize(sch) == KemCiphertextSize(First(sch)) + KemCiphertextSize(Second(sch))

\* Scheme.EncapsulationSeedSize
EncapsulationSeedSize(sch) ==
    KemEncapsulationSeedSize(First(sch)) + KemEncapsulationSeedSize(Second(sch))

\* &PublicKey{sch, pk1, pk2} and &PrivateKey{sch, sk1, sk2}
HybridPublicKey(sch, pk1, pk2) ==
    [typ |-> HybridPublicKeyType, sch |-> sch, first |-> pk1, second |-> pk2]
HybridPrivateKey(sch, sk1, sk2) ==
    [typ |-> HybridPrivateKeyType, sch |-> sch, first |-> sk1, second |-> sk2]

\* new(PublicKey) and new(PrivateKey): no scheme, no components.
ZeroPublicKey == HybridPublicKey("nil", NilKey, NilKey)
ZeroPrivateKey == HybridPrivateKey("nil", NilKey, NilKey)

\* MarshalBinary and Equal of a leaf key.
LeafMarshalBinary(k) == [bytes |-> k.bytes, err |-> "nil"]
LeafEqual(k, other) ==
    [val |-> other.typ = k.typ /\ other.bytes = k.bytes, panicked |-> FALSE]

KeyPublicMarshalBinary(k) ==
    IF k.typ = HybridPublicKeyType THEN PublicKeyMarshalBinary(k)
    ELSE LeafMarshalBinary(k)
KeyPrivateMarshalBinary(k) ==
    IF k.typ = HybridPrivateKeyType THEN PrivateKeyMarshalBinary(k)
    ELSE LeafMarshalBinary(k)
\* A method call on the nil interface panics.
KeyPublicEqual(k, other) ==
    IF k.typ = "nil" THEN [val |-> FALSE, panicked |-> TRUE]
    ELSE IF k.typ = HybridPublicKeyType THEN PublicKeyEqual(k, other)
    ELSE LeafEqual(k, other)
KeyPrivateEqual(k, other) ==
    IF k.typ = "nil" THEN [val |-> FALSE, panicked |-> TRUE]
    ELSE IF k.typ = HybridPrivateKeyType THEN PrivateKeyEqual(k, other)
    ELSE LeafEqual(k, other)

\* PrivateKey.MarshalBinary: [bytes, err]
PrivateKeyMarshalBinary(sk) ==
    IF sk.first = NilKey \/ sk.second = NilKey
    THEN [bytes |-> Nil, err |-> "ErrUninitialized"]
    ELSE LET first == KeyPrivateMarshalBinary(sk.first)
         IN  IF first.err # "nil" THEN [bytes |-> Nil, err |-> first.err]
             ELSE LET second == KeyPrivateMarshalBinary(sk.second)
                  IN  IF second.err # "nil" THEN [bytes |-> Nil, err |-> second.err]
                      ELSE [bytes |-> first.bytes \o second.bytes, err |-> "nil"]

\* PrivateKey.Equal: [val, panicked]
PrivateKeyEqual(sk, other) ==
    IF other.typ # HybridPrivateKeyType
    THEN [val |-> FALSE, panicked |-> FALSE]
    ELSE LET e1 == KeyPrivateEqual(sk.first, other.first)
         IN  IF e1.panicked \/ ~e1.val THEN e1
             ELSE KeyPrivateEqual(sk.second, other.second)

\* PrivateKey.Public
Public(sk) ==
    IF sk.typ = HybridPrivateKeyType
    THEN HybridPublicKey(sk.sch, Public(sk.first), Public(sk.second))
    ELSE LeafPublicKey(sk.sch, LeafPublicBytes(sk.sch, sk.bytes))

\* PublicKey.Equal: [val, panicked]
PublicKeyEqual(pk, other) ==
    IF other.typ # HybridPublicKeyType
    THEN [val |-> FALSE, panicked |-> FALSE]
    ELSE LET e1 == KeyPublicEqual(pk.first, other.first)
         IN  IF e1.panicked \/ ~e1.val THEN e1
             ELSE KeyPublicEqual(pk.second, other.second)

\* MarshalBinary writing the second component before the first.
PublicKeyMarshalBinarySwapped(pk) ==
    IF pk.first = NilKey \/ pk.second = NilKey
    THEN [bytes |-> Nil, err |-> "ErrUninitialized"]
    ELSE LET first == KeyPublicMarshalBinary(pk.first)
         IN  IF first.err # "nil" THEN [bytes |-> Nil, err |-> first.err]
             ELSE LET second == KeyPublicMarshalBinary(pk.second)
                  IN  IF second.err # "nil" THEN [bytes |-> Nil, err |-> second.err]
                      ELSE [bytes |-> second.bytes \o first.bytes, err |-> "nil"]

\* PublicKey.MarshalBinary: [bytes, err]
PublicKeyMarshalBinary(pk) ==
    IF pk.first = NilKey \/ pk.second = NilKey
    THEN [bytes |-> Nil, err |-> "ErrUninitialized"]
    ELSE LET first == KeyPublicMarshalBinary(pk.first)
         IN  IF first.err # "nil" THEN [bytes |-> Nil, err |-> first.err]
             ELSE LET second == KeyPublicMarshalBinary(pk.second)
                  IN  IF second.err # "nil" THEN [bytes |-> Nil, err |-> second.err]
                      ELSE [bytes |-> first.bytes \o second.bytes, err |-> "nil"]

\* The seeds DeriveKeyPair hands to the components:
\* seed[:sch.first.SeedSize()] and seed[sch.first.SeedSize():].
DeriveKeyPairSeeds(sch, seed) ==
    [first |-> Take(seed, KemSeedSize(First(sch))),
     second |-> Drop(seed, KemSeedSize(First(sch)))]

\* The seeds EncapsulateDeterministically hands to the components:
\* seed[:sch.first.EncapsulationSeedSize()] and seed[sch.first.EncapsulationSeedSize():].
EncapsulationSeeds(sch, seed) ==
    [first |-> Take(seed, KemEncapsulationSeedSize(First(sch))),
     second |-> Drop(seed, KemEncapsulationSeedSize(First(sch)))]

\* DeriveKeyPair refusing only the seeds that are too short.
DeriveKeyPairShortOnly(sch, seed) ==
    IF Len(seed) < KemSeedSize(First(sch)) + KemSeedSize(Second(sch))
    THEN [pk |-> NilKey, sk |-> NilKey, panicked |-> TRUE, calls |-> << >>]
    ELSE LET kp1 == KemDeriveKeyPair(First(sch), Take(seed, KemSeedSize(First(sch))))
             kp2 == KemDeriveKeyPair(Second(sch), Drop(seed, KemSeedSize(First(sch))))
             c1 == << <<First(sch), "DeriveKeyPair">> >>
             c2 == << <<First(sch), "DeriveKeyPair">>, <<Second(sch), "DeriveKeyPair">> >>
         IN  IF kp1.panicked
             THEN [pk |-> NilKey, sk |-> NilKey, panicked |-> TRUE, calls |-> c1]
             ELSE IF kp2.panicked
             THEN [pk |-> NilKey, sk |-> NilKey, panicked |-> TRUE, calls |-> c2]
             ELSE [pk |-> HybridPublicKey(sch, kp1.pk, kp2.pk),
                   sk |-> HybridPrivateKey(sch, kp1.sk, kp2.sk),
                   panicked |-> FALSE, calls |-> c2]

\* Scheme.DeriveKeyPair: [pk, sk, panicked, calls]
DeriveKeyPair(sch, seed) ==
    IF Len(seed) # KemSeedSize(First(sch)) + KemSeedSize(Second(sch))
    THEN [pk |-> NilKey, sk |-> NilKey, panicked |-> TRUE, calls |-> << >>]
    ELSE LET kp1 == KemDeriveKeyPair(First(sch), DeriveKeyPairSeeds(sch, seed).first)
             kp2 == KemDeriveKeyPair(Second(sch), DeriveKeyPairSeeds(sch, seed).second)
             c1 == << <<First(sch), "DeriveKeyPair">> >>
             c2 == << <<First(sch), "DeriveKeyPair">>, <<Second(sch), "DeriveKeyPair">> >>
         IN  IF kp1.panicked
             THEN [pk |-> NilKey, sk |-> NilKey, panicked |-> TRUE, calls |-> c1]
             ELSE IF kp2.panicked
             THEN [pk |-> NilKey, sk |-> NilKey, panicked |-> TRUE, calls |-> c2]
             ELSE [pk |-> HybridPublicKey(sch, kp1.pk, kp2.pk),
                   sk |-> HybridPrivateKey(sch, kp1.sk, kp2.sk),
                   panicked |-> FALSE, calls |-> c2]

\* EncapsulateDeterministically asserting the key's type before it checks the
\* seed's length.
EncapsulateTypeFirst(sch, publicKey, seed) ==
    IF publicKey.typ # HybridPublicKeyType
    THEN [ct |-> Nil, ss |-> Nil, err |-> "ErrTypeMismatch", calls |-> << >>]
    ELSE IF Len(seed) # EncapsulationSeedSize(sch)
    THEN [ct |-> Nil, ss |-> Nil, err |-> "ErrSeedSize", calls |-> << >>]
    ELSE LET first == Take(seed, KemEncapsulationSeedSize(First(sch)))
             second == Drop(seed, KemEncapsulationSeedSize(First(sch)))
             c1 == << <<First(sch), "EncapsulateDeterministically">> >>
             c2 == Append(c1, <<Second(sch), "EncapsulateDeterministically">>)
             e1 == KemEncapsulateDeterministically(First(sch), publicKey.first, first)
         IN  IF e1.err # "nil"
             THEN [ct |-> Nil, ss |-> Nil, err |-> e1.err, calls |-> c1]
             ELSE LET e2 == KemEncapsulateDeterministically(
                                Second(sch), publicKey.second, second)
                  IN  IF e2.err # "nil"
                      THEN [ct |-> Nil, ss |-> Nil, err |-> e2.err, calls |-> c2]
                      ELSE [ct |-> e1.ct \o e2.ct,
                            ss |-> PairSplitPRF(e1.ss, e2.ss, e1.ct, e2.ct),
                            err |-> "nil", calls |-> c2]

\* Scheme.EncapsulateDeterministically: [ct, ss, err, calls]
EncapsulateDeterministically(sch, publicKey, seed) ==
    IF Len(seed) # EncapsulationSeedSize(sch)
    THEN [ct |-> Nil, ss |-> Nil, err |-> "ErrSeedSize", calls |-> << >>]
    ELSE LET first == EncapsulationSeeds(sch, seed).first
             second == EncapsulationSeeds(sch, seed).second
             c1 == << <<First(sch), "EncapsulateDeterministically">> >>
             c2 == Append(c1, <<Second(sch), "EncapsulateDeterministically">>)
         IN  IF publicKey.typ # HybridPublicKeyType
             THEN [ct |-> Nil, ss |-> Nil, err |-> "ErrTypeMismatch", calls |-> << >>]
             ELSE LET e1 == KemEncapsulateDeterministically(First(sch), publicKey.first, first)
                  IN  IF e1.err # "nil"
                      THEN [ct |-> Nil, ss |-> Nil, err |-> e1.err, calls |-> c1]
                      ELSE LET e2 == KemEncapsulateDeterministically(
                                         Second(sch), publicKey.second, second)
                           IN  IF e2.err # "nil"
                               THEN [ct |-> Nil, ss |-> Nil, err |-> e2.err, calls |-> c2]
                               ELSE [ct |-> e1.ct \o e2.ct,
                                     ss |-> PairSplitPRF(e1.ss, e2.ss, e1.ct, e2.ct),
                                     err |-> "nil", calls |-> c2]

\* Decapsulate handing the two ciphertext halves to the PRF in the other order.
DecapsulateSwapped(sch, sk, ct) ==
    IF Len(ct) # CiphertextSize(sch)
    THEN [ss |-> Nil, err |-> "ErrCiphertextSize", calls |-> << >>]
    ELSE IF sk.typ # HybridPrivateKeyType
    THEN [ss |-> Nil, err |-> "ErrTypeMismatch", calls |-> << >>]
    ELSE LET firstSize == KemCiphertextSize(First(sch))
             c1 == << <<First(sch), "Decapsulate">> >>
             c2 == Append(c1, <<Second(sch), "Decapsulate">>)
             d1 == KemDecapsulate(First(sch), sk.first, Take(ct, firstSize))
         IN  IF d1.err # "nil" THEN [ss |-> Nil, err |-> d1.err, calls |-> c1]
             ELSE LET d2 == KemDecapsulate(Second(sch), sk.second, Drop(ct, firstSize))
                  IN  IF d2.err # "nil" THEN [ss |-> Nil, err |-> d2.err, calls |-> c2]
                      ELSE [ss |-> PairSplitPRF(d1.ss, d2.ss, Drop(ct, firstSize),
                                                Take(ct, firstSize)),
                            err |-> "nil", calls |-> c2]

\* Scheme.Decapsulate: [ss, err, calls]
Decapsulate(sch, sk, ct) ==
    IF Len(ct) # CiphertextSize(sch)
    THEN [ss |-> Nil, err |-> "ErrCiphertextSize", calls |-> << >>]
    ELSE IF sk.typ # HybridPrivateKeyType
    THEN [ss |-> Nil, err |-> "ErrTypeMismatch", calls |-> << >>]
    ELSE LET firstSize == KemCiphertextSize(First(sch))
             c1 == << <<First(sch), "Decapsulate">> >>
             c2 == Append(c1, <<Second(sch), "Decapsulate">>)
             d1 == KemDecapsulate(First(sch), sk.first, Take(ct, firstSize))
         IN  IF d1.err # "nil" THEN [ss |-> Nil, err |-> d1.err, calls |-> c1]
             ELSE LET d2 == KemDecapsulate(Second(sch), sk.second, Drop(ct, firstSize))
                  IN  IF d2.err # "nil" THEN [ss |-> Nil, err |-> d2.err, calls |-> c2]
                      ELSE [ss |-> PairSplitPRF(d1.ss, d2.ss, Take(ct, firstSize),
                                                Drop(ct, firstSize)),
                            err |-> "nil", calls |-> c2]

\* UnmarshalBinaryPublicKey refusing only the buffers that are too short.
UnmarshalBinaryPublicKeyShortOnly(sch, buf) ==
    IF Len(buf) < PublicKeySize(sch)
    THEN [key |-> NilKey, err |-> "ErrPubKeySize", calls |-> << >>]
    ELSE LET firstSize == KemPublicKeySize(First(sch))
             c1 == << <<First(sch), "UnmarshalBinaryPublicKey">> >>
             c2 == Append(c1, <<Second(sch), "UnmarshalBinaryPublicKey">>)
             u1 == KemUnmarshalBinaryPublicKey(First(sch), Take(buf, firstSize))
         IN  IF u1.err # "nil" THEN [key |-> NilKey, err |-> u1.err, calls |-> c1]
             ELSE LET u2 == KemUnmarshalBinaryPublicKey(Second(sch), Drop(buf, firstSize))
                  IN  IF u2.err # "nil" THEN [key |-> NilKey, err |-> u2.err, calls |-> c2]
                      ELSE [key |-> HybridPublicKey(sch, u1.key, u2.key),
                            err |-> "nil", calls |-> c2]

\* Scheme.UnmarshalBinaryPublicKey: [key, err, calls]
UnmarshalBinaryPublicKey(sch, buf) ==
    IF Len(buf) # PublicKeySize(sch)
    THEN [key |-> NilKey, err |-> "ErrPubKeySize", calls |-> << >>]
    ELSE LET firstSize == KemPublicKeySize(First(sch))
             c1 == << <<First(sch), "UnmarshalBinaryPublicKey">> >>
             c2 == Append(c1, <<Second(sch), "UnmarshalBinaryPublicKey">>)
             u1 == KemUnmarshalBinaryPublicKey(First(sch), Take(buf, firstSize))
         IN  IF u1.err # "nil" THEN [key |-> NilKey, err |-> u1.err, calls |-> c1]
             ELSE LET u2 == KemUnmarshalBinaryPublicKey(Second(sch), Drop(buf, firstSize))
                  IN  IF u2.err # "nil" THEN [key |-> NilKey, err |-> u2.err, calls |-> c2]
                      ELSE [key |-> HybridPublicKey(sch, u1.key, u2.key),
                            err |-> "nil", calls |-> c2]

\* Scheme.UnmarshalBinaryPrivateKey: [key, err, calls]
UnmarshalBinaryPrivateKey(sch, buf) ==
    IF Len(buf) # PrivateKeySize(sch)
    THEN [key |-> NilKey, err |-> "ErrPrivKeySize", calls |-> << >>]
    ELSE LET firstSize == KemPrivateKeySize(First(sch))
             c1 == << <<First(sch), "UnmarshalBinaryPrivateKey">> >>
             c2 == Append(c1, <<Second(sch), "UnmarshalBinaryPrivateKey">>)
             u1 == KemUnmarshalBinaryPrivateKey(First(sch), Take(buf, firstSize))
         IN  IF u1.err # "nil" THEN [key |-> NilKey, err |-> u1.err, calls |-> c1]
             ELSE LET u2 == KemUnmarshalBinaryPrivateKey(Second(sch), Drop(buf, firstSize))
                  IN  IF u2.err # "nil" THEN [key |-> NilKey, err |-> u2.err, calls |-> c2]
                      ELSE [key |-> HybridPrivateKey(sch, u1.key, u2.key),
                            err |-> "nil", calls |-> c2]

\* Scheme.GenerateKeyPair: [pk, sk, err, calls].  A leaf draws its key from
\* the random bytes rnd; ok1 and ok2 say whether the component succeeds.
GenerateKeyPair(sch, rnd, ok1, ok2) ==
    LET n1 == KemSeedSize(First(sch))
        c1 == << <<First(sch), "GenerateKeyPair">> >>
        c2 == Append(c1, <<Second(sch), "GenerateKeyPair">>)
        kp1 == KemDeriveKeyPair(First(sch), Take(rnd, n1))
        kp2 == KemDeriveKeyPair(Second(sch), Drop(rnd, n1))
    IN  IF ~ok1 THEN [pk |-> NilKey, sk |-> NilKey, err |-> "ErrRand", calls |-> c1]
        ELSE IF ~ok2 THEN [pk |-> NilKey, sk |-> NilKey, err |-> "ErrRand", calls |-> c2]
        ELSE [pk |-> HybridPublicKey(sch, kp1.pk, kp2.pk),
              sk |-> HybridPrivateKey(sch, kp1.sk, kp2.sk), err |-> "nil", calls |-> c2]

\* Scheme.Encapsulate: seed is what rand.Reader delivered, ok whether it did.
Encapsulate(sch, pk, seed, ok) ==
    IF ~ok THEN [ct |-> Nil, ss |-> Nil, err |-> "ErrRand", calls |-> << >>]
    ELSE EncapsulateDeterministically(sch, pk, seed)

-----------------------------------------------------------------------------
(* Package ed25519.                                                        *)

\* ed25519.PublicKeySize
EdPublicKeySize == 32
\* ed25519.PrivateKeySize
EdPrivateKeySize == 64

EdPublicKeyType == "ed25519.PublicKey"
EdPrivateKeyType == "ed25519.PrivateKey"

\* The character codes of "[scrubbed]".
Scrubbed == <<91, 115, 99, 114, 117, 98, 98, 101, 100, 93>>

\* The character of a base64 digit 0..63 in the standard alphabet.
B64Char(d) ==
    IF d < 26 THEN 65 + d
    ELSE IF d < 52 THEN 97 + (d - 26)
    ELSE IF d < 62 THEN 48 + (d - 52)
    ELSE IF d = 62 THEN 43 ELSE 47

RECURSIVE EncodeToString(_)
\* base64.StdEncoding.EncodeToString, as character codes; 61 is the padding '='.
EncodeToString(b) ==
    IF Len(b) = 0 THEN << >>
    ELSE IF Len(b) = 1
    THEN <<B64Char(b[1] \div 4), B64Char((b[1] % 4) * 16), 61, 61>>
    ELSE IF Len(b) = 2
    THEN <<B64Char(b[1] \div 4), B64Char((b[1] % 4) * 16 + b[2] \div 16),
           B64Char((b[2] % 16) * 4), 61>>
    ELSE <<B64Char(b[1] \div 4), B64Char((b[1] % 4) * 16 + b[2] \div 16),
           B64Char((b[2] % 16) * 4 + b[3] \div 64), B64Char(b[3] % 64)>>
         \o EncodeToString(Drop(b, 3))

\* The digit a base64 character stands for, 64 for any other character.
B64Digit(ch) ==
    IF \E d \in 0..63 : B64Char(d) = ch THEN CHOOSE d \in 0..63 : B64Char(d) = ch
    ELSE 64

RECURSIVE DecodeString(_)
\* base64.StdEncoding.DecodeString: [bytes, ok]
DecodeString(str) ==
    IF Len(str) = 0 THEN [bytes |-> << >>, ok |-> TRUE]
    ELSE IF Len(str) < 4 THEN [bytes |-> << >>, ok |-> FALSE]
    ELSE LET d1 == B64Digit(str[1])
             d2 == B64Digit(str[2])
             d3 == B64Digit(str[3])
             d4 == B64Digit(str[4])
             bad == [bytes |-> << >>, ok |-> FALSE]
         IN  IF d1 = 64 \/ d2 = 64 THEN bad
             ELSE IF str[3] = 61
             THEN IF str[4] = 61 /\ Len(str) = 4 /\ d2 % 16 = 0
                  THEN [bytes |-> <<d1 * 4 + d2 \div 16>>, ok |-> TRUE]
                  ELSE bad
             ELSE IF d3 = 64 THEN bad
             ELSE IF str[4] = 61
             THEN IF Len(str) = 4 /\ d3 % 4 = 0
                  THEN [bytes |-> <<d1 * 4 + d2 \div 16, (d2 % 16) * 16 + d3 \div 4>>,
                        ok |-> TRUE]
                  ELSE bad
             ELSE IF d4 = 64 THEN bad
             ELSE LET rest == DecodeString(Drop(str, 4))
                  IN  IF ~rest.ok THEN bad
                      ELSE [bytes |-> <<d1 * 4 + d2 \div 16,
                                        (d2 % 16) * 16 + d3 \div 4,
                                        (d3 % 4) * 64 + d4>> \o rest.bytes,
                            ok |-> TRUE]

\* A PublicKey struct, and new(PublicKey).
EdPublicKey(pubKey, b64String) ==
    [typ |-> EdPublicKeyType, pubKey |-> pubKey, b64String |-> b64String]
EdZeroPublicKey == EdPublicKey(Nil, << >>)

\* A PrivateKey struct, and new(PrivateKey).
EdPrivateKey(pubKey, privKey) ==
    [typ |-> EdPrivateKeyType, pubKey |-> pubKey, privKey |-> privKey]
EdZeroPrivateKey == EdPrivateKey(EdZeroPublicKey, Nil)

\* PublicKey.Bytes
Bytes(p) == p.pubKey

\* PublicKey.rebuildB64String: the key after the call.
rebuildB64String(p) == [p EXCEPT !.b64String = EncodeToString(Bytes(p))]

\* PublicKey.FromBytes: [key, err], key the receiver after the call.
FromBytes(p, data) ==
    IF Len(data) # EdPublicKeySize
    THEN [key |-> p, err |-> "errInvalidKey"]
    ELSE [key |-> rebuildB64String([p EXCEPT !.pubKey = data]), err |-> "nil"]

\* PublicKey.UnmarshalBinary
UnmarshalBinary(p, data) == FromBytes(p, data)

\* PublicKey.MarshalBinary
EdMarshalBinary(p) == [bytes |-> Bytes(p), err |-> "nil"]

\* PrivateKey.FromBytes: [key, err]; the public half of an ed25519 private
\* key is its last 32 bytes.
PrivateKeyFromBytes(p, b) ==
    IF Len(b) # EdPrivateKeySize
    THEN [key |-> p, err |-> "errInvalidKey"]
    ELSE [key |-> [p EXCEPT !.privKey = b,
                            !.pubKey = rebuildB64String(
                                [p.pubKey EXCEPT !.pubKey = Drop(b, EdPublicKeySize)])],
          err |-> "nil"]

\* scheme.UnmarshalBinaryPublicKey: [key, err]
EdUnmarshalBinaryPublicKey(b) ==
    LET r == UnmarshalBinary(EdZeroPublicKey, b)
    IN  IF r.err # "nil" THEN [key |-> NilKey, err |-> r.err]
        ELSE [key |-> r.key, err |-> "nil"]

\* scheme.UnmarshalBinaryPrivateKey: [key, err]
EdUnmarshalBinaryPrivateKey(b) ==
    LET r == PrivateKeyFromBytes(EdZeroPrivateKey, b)
    IN  IF r.err # "nil" THEN [key |-> NilKey, err |-> r.err]
        ELSE [key |-> r.key, err |-> "nil"]

\* PublicKey.Equal: [val, panicked].  The type assertion pubKey.(*PublicKey)
\* has no ok result: it panics on any other dynamic type, nil included.
\* hmac.Equal is true iff the two slices have the same length and bytes.
EdEqual(p, pubKey) ==
    IF pubKey.typ # EdPublicKeyType
    THEN [val |-> FALSE, panicked |-> TRUE]
    ELSE [val |-> p.pubKey = pubKey.pubKey, panicked |-> FALSE]

\* PublicKey.Reset: util.ExplicitBzero zeroes the bytes in place.
Reset(p) ==
    [p EXCEPT !.pubKey = [i \in 1..Len(p.pubKey) |-> 0], !.b64String = Scrubbed]

-----------------------------------------------------------------------------
(* The text form of the hybrid public keys: package pem and the text       *)
(* methods of package hybrid.                                              *)

\* A PEM block as text: the scheme's name and the kind of key of its type
\* line, and the base64 text of its bytes.
PEMText(name, kind, bytes) == <<name, kind, EncodeToString(bytes)>>

\* pem.ToPublicPEMBytes(key): [text, panicked]
ToPublicPEMBytes(key) ==
    LET m == PublicKeyMarshalBinary(key)
    IN  IF m.err # "nil" THEN [text |-> Nil, panicked |-> TRUE]
        ELSE [text |-> PEMText(Name(key.sch), "PUBLIC KEY", m.bytes),
              panicked |-> FALSE]

\* pem.FromPublicPEMToBytes(text, scheme): [blob, err]
FromPublicPEMToBytes(text, sch) ==
    IF Len(text) # 3 \/ ~DecodeString(text[3]).ok
    THEN [blob |-> Nil, err |-> "errPEMDecode"]
    ELSE IF <<text[1], text[2]>> # <<Name(sch), "PUBLIC KEY">>
    THEN [blob |-> Nil, err |-> "errPEMKeyType"]
    ELSE [blob |-> DecodeString(text[3]).bytes, err |-> "nil"]

\* PublicKey.MarshalText: [text, err, panicked]
MarshalText(pk) ==
    LET r == ToPublicPEMBytes(pk)
    IN  [text |-> r.text, err |-> "nil", panicked |-> r.panicked]

\* PublicKey.UnmarshalText on the key p the caller holds: [recv, sk, err],
\* recv the caller's key after the call and sk the method's own variable.
UnmarshalText(p, text) ==
    LET b == FromPublicPEMToBytes(text, p.sch)
    IN  IF b.err # "nil" THEN [recv |-> p, sk |-> p, err |-> b.err]
        ELSE LET u == UnmarshalBinaryPublicKey(p.sch, b.blob)
             IN  IF u.err # "nil" THEN [recv |-> p, sk |-> p, err |-> u.err]
                 ELSE IF u.key.typ # HybridPublicKeyType
                 THEN [recv |-> p, sk |-> NilKey, err |-> "type assertion failed"]
                 ELSE [recv |-> p, sk |-> u.key, err |-> "nil"]

-----------------------------------------------------------------------------
(* Package schemes.  A name is the sequence of its character codes.  A     *)
(* slice is a header [ptr, len, cap] over a backing array of the heap;     *)
(* two slices with the same ptr share their elements.                      *)

\* A kem.Scheme instance is its identity, a number; 0 is the nil kem.Scheme.
NilScheme == 0

\* What Name() returns for the schemes of the literal of var allSchemes, in
\* the literal's order.
allSchemesNames ==
    <<
     (* DH4096_RFC3526 *)
     <<68, 72, 52, 48, 57, 54, 95, 82, 70, 67, 51, 53, 50, 54>>,
     (* X25519 *)
     <<88, 50, 53, 53, 49, 57>>,
     (* X448 *)
     <<88, 52, 52, 56>>,
     (* MLKEM768 *)
     <<77, 76, 75, 69, 77, 55, 54, 56>>,
     (* sntrup4591761 *)
     <<115, 110, 116, 114, 117, 112, 52, 53, 57, 49, 55, 54, 49>>,
     (* Kyber512 *)
     <<75, 121, 98, 101, 114, 53, 49, 50>>,
     (* Kyber768 *)
     <<75, 121, 98, 101, 114, 55, 54, 56>>,
     (* Kyber1024 *)
     <<75, 121, 98, 101, 114, 49, 48, 50, 52>>,
     (* FrodoKEM-640-SHAKE *)
     <<70, 114, 111, 100, 111, 75, 69, 77, 45, 54, 52, 48, 45, 83, 72, 65, 75, 69>>,
     (* mceliece348864 *)
     <<109, 99, 101, 108, 105, 101, 99, 101, 51, 52, 56, 56, 54, 52>>,
     (* mceliece348864f *)
     <<109, 99, 101, 108, 105, 101, 99, 101, 51, 52, 56, 56, 54, 52, 102>>,
     (* mceliece460896 *)
     <<109, 99, 101, 108, 105, 101, 99, 101, 52, 54, 48, 56, 57, 54>>,
     (* mceliece460896f *)
     <<109, 99, 101, 108, 105, 101, 99, 101, 52, 54, 48, 56, 57, 54, 102>>,
     (* mceliece6688128 *)
     <<109, 99, 101, 108, 105, 101, 99, 101, 54, 54, 56, 56, 49, 50, 56>>,
     (* mceliece6688128f *)
     <<109, 99, 101, 108, 105, 101, 99, 101, 54, 54, 56, 56, 49, 50, 56, 102>>,
     (* mceliece6960119 *)
     <<109, 99, 101, 108, 105, 101, 99, 101, 54, 57, 54, 48, 49, 49, 57>>,
     (* mceliece6960119f *)
     <<109, 99, 101, 108, 105, 101, 99, 101, 54, 57, 54, 48, 49, 49, 57, 102>>,
     (* mceliece8192128 *)
     <<109, 99, 101, 108, 105, 101, 99, 101, 56, 49, 57, 50, 49, 50, 56>>,
     (* mceliece8192128f *)
     <<109, 99, 101, 108, 105, 101, 99, 101, 56, 49, 57, 50, 49, 50, 56, 102>>,
     (* XWING *)
     <<88, 87, 73, 78, 71>>,
     (* Kyber768-X25519 *)
     <<75, 121, 98, 101, 114, 55, 54, 56, 45, 88, 50, 53, 53, 49, 57>>,
     (* MLKEM768-X25519 *)
     <<77, 76, 75, 69, 77, 55, 54, 56, 45, 88, 50, 53, 53, 49, 57>>,
     (* x448-mceliece8192128f-mlkem768 *)
     <<120, 52, 52, 56, 45, 109, 99, 101, 108, 105, 101, 99, 101, 56, 49, 57, 50, 49, 50, 56, 102, 45, 109, 108, 107, 101, 109, 55, 54, 56>>,
     (* sntrup4591761-X25519 *)
     <<115, 110, 116, 114, 117, 112, 52, 53, 57, 49, 55, 54, 49, 45, 88, 50, 53, 53, 49, 57>>,
     (* X25519-mlkem768-sntrup4591761 *)
     <<88, 50, 53, 53, 49, 57, 45, 109, 108, 107, 101, 109, 55, 54, 56, 45, 115, 110, 116, 114, 117, 112, 52, 53, 57, 49, 55, 54, 49>>
    >>

\* What Name() returns for the schemes of var potentialSchemes, in order.
potentialSchemesNames ==
    <<
     (* CTIDH511 *)
     <<67, 84, 73, 68, 72, 53, 49, 49>>,
     (* CTIDH512 *)
     <<67, 84, 73, 68, 72, 53, 49, 50>>,
     (* CTIDH1024 *)
     <<67, 84, 73, 68, 72, 49, 48, 50, 52>>,
     (* CTIDH2048 *)
     <<67, 84, 73, 68, 72, 50, 48, 52, 56>>,
     (* x25519-mceliece8192128f-ctidh512 *)
     <<120, 50, 53, 53, 49, 57, 45, 109, 99, 101, 108, 105, 101, 99, 101, 56, 49, 57, 50, 49, 50, 56, 102, 45, 99, 116, 105, 100, 104, 53, 49, 50>>,
     (* x448-mceliece8192128f-ctidh512 *)
     <<120, 52, 52, 56, 45, 109, 99, 101, 108, 105, 101, 99, 101, 56, 49, 57, 50, 49, 50, 56, 102, 45, 99, 116, 105, 100, 104, 53, 49, 50>>,
     (* ctidh512-X25519 *)
     <<99, 116, 105, 100, 104, 53, 49, 50, 45, 88, 50, 53, 53, 49, 57>>,
     (* ctidh1024-X25519 *)
     <<99, 116, 105, 100, 104, 49, 48, 50, 52, 45, 88, 50, 53, 53, 49, 57>>,
     (* ctidh2048-X25519 *)
     <<99, 116, 105, 100, 104, 50, 48, 52, 56, 45, 88, 50, 53, 53, 49, 57>>,
     (* X25519-mlkem768-ctidh512 *)
     <<88, 50, 53, 53, 49, 57, 45, 109, 108, 107, 101, 109, 55, 54, 56, 45, 99, 116, 105, 100, 104, 53, 49, 50>>,
     (* X25519-mlkem768-ctidh1024 *)
     <<88, 50, 53, 53, 49, 57, 45, 109, 108, 107, 101, 109, 55, 54, 56, 45, 99, 116, 105, 100, 104, 49, 48, 50, 52>>
    >>

\* var allSchemes = []kem.Scheme{...}: the instances of the literal.
allSchemesLiteral == [i \in 1..Len(allSchemesNames) |-> i]

\* var potentialSchemes = [...]kem.Scheme{...}
potentialSchemes == [i \in 1..Len(potentialSchemesNames) |-> Len(allSchemesNames) + i]

\* A scheme that is not in the registry, such as a caller can build, and its name.
ForeignScheme == Len(allSchemesNames) + Len(potentialSchemesNames) + 1
ForeignName == <<101, 118, 105, 108>>

\* scheme.Name()
SchemeName(scheme) ==
    IF scheme <= Len(allSchemesNames) THEN allSchemesNames[scheme]
    ELSE IF scheme = ForeignScheme THEN ForeignName
    ELSE potentialSchemesNames[scheme - Len(allSchemesNames)]

\* strings.ToLower and strings.ToUpper on ASCII names.
ToLower(name) == [i \in 1..Len(name) |-> IF name[i] \in 65..90 THEN name[i] + 32 ELSE name[i]]
ToUpper(name) == [i \in 1..Len(name) |-> IF name[i] \in 97..122 THEN name[i] - 32 ELSE name[i]]

\* The elements of slice s.
Elems(h, s) == Take(h[s.ptr], s.len)

\* Go's append(s, x): in place when the capacity allows, else into a new
\* array of twice the capacity.  [heap, slice]
GoAppend(h, s, x) ==
    IF s.len < s.cap
    THEN [heap |-> [h EXCEPT ![s.ptr][s.len + 1] = x],
          slice |-> [s EXCEPT !.len = s.len + 1]]
    ELSE [heap |-> [h EXCEPT !["grown"] =
                       [i \in 1..(2 * s.cap) |->
                           IF i <= s.len THEN h[s.ptr][i]
                           ELSE IF i = s.len + 1 THEN x ELSE NilScheme]],
          slice |-> [ptr |-> "grown", len |-> s.len + 1, cap |-> 2 * s.cap]]

RECURSIVE AppendPotential(_, _, _)
\* The first loop of init: for _, scheme := range potentialSchemes.
AppendPotential(h, s, i) ==
    IF i > Len(potentialSchemes) THEN [heap |-> h, slice |-> s]
    ELSE IF potentialSchemes[i] # NilScheme
    THEN LET a == GoAppend(h, s, potentialSchemes[i])
         IN  AppendPotential(a.heap, a.slice, i + 1)
    ELSE AppendPotential(h, s, i + 1)

\* allSchemeNames[key] = scheme
MapPut(m, key, scheme) ==
    [k \in (DOMAIN m) \cup {key} |-> IF k = key THEN scheme ELSE m[k]]

RECURSIVE FillNames(_, _, _)
\* The second loop of init: for _, scheme := range allSchemes.
FillNames(m, list, i) ==
    IF i > Len(list) THEN m
    ELSE FillNames(MapPut(m, ToLower(SchemeName(list[i])), list[i]), list, i + 1)

\* make(map[string]kem.Scheme), also what a nil map reads as.
EmptyMap == [k \in {} |-> NilScheme]

\* func init(): [heap, slice, names]
PackageInit(h, s) ==
    LET a == AppendPotential(h, s, 1)
    IN  [heap |-> a.heap, slice |-> a.slice,
         names |-> FillNames(EmptyMap, Elems(a.heap, a.slice), 1)]

\* func ByName(name string) kem.Scheme
ByName(names, name) ==
    IF ToLower(name) \in DOMAIN names THEN names[ToLower(name)] ELSE NilScheme

\* func All() []kem.Scheme: a := allSchemes; return a[:]
All(s) == [ptr |-> s.ptr, len |-> s.len, cap |-> s.cap]

-----------------------------------------------------------------------------
(* The inputs the callers draw from.                                       *)

Seed(b, n) == [i \in 1..n |-> (40 * b + 3 * i) % 256]
Seeds(n) == {Seed(b, n) : b \in 0..(NumSeedBases - 1)}
\* Byte strings of length n, one too short and one too long.
SeedInputs(n) == Seeds(n) \cup {Seed(0, n - 1), Seed(0, n + 1)}

LeafKeyPair == LeafDeriveKeyPair("K1", Seed(0, LeafSize("K1")))
DerivedKeyPairs ==
    UNION {{DeriveKeyPair(h, seed) : seed \in Seeds(SeedSize(h))} : h \in Hybrids}

\* Values of type kem.PublicKey / kem.PrivateKey a caller can pass.
PublicKeyInputs == {held.pk, NilKey, ZeroPublicKey, LeafKeyPair.pk}
PrivateKeyInputs == {held.sk, NilKey, ZeroPrivateKey, LeafKeyPair.sk}

\* The variants of a byte string b: itself, one byte short, one byte long.
Variants(b) == {b, Take(b, Len(b) - 1), b \o <<0>>}

\* An outcome record with nothing in it.
NoRet ==
    [op |-> "none", sch |-> "nil", sch2 |-> "nil", key |-> NilKey, key2 |-> NilKey,
     buf |-> Nil, outKey |-> NilKey, outKey2 |-> NilKey, out1 |-> Nil, out2 |-> Nil,
     val |-> FALSE, err |-> "nil", panicked |-> FALSE, calls |-> << >>,
     recv |-> NilKey, in1 |-> Nil, in2 |-> Nil]

EncapsulationOps == {"Encapsulate", "EncapsulateDeterministically"}
LastEncapsulated == ret.op \in EncapsulationOps /\ ret.err = "nil"
LastMarshalled(op) == ret.op = op /\ ret.err = "nil"

-----------------------------------------------------------------------------
(* The calls into package hybrid.                                          *)

CallDeriveKeyPair ==
    \E sch \in Hybrids : \E seed \in SeedInputs(SeedSize(sch)) :
        LET r == DeriveKeyPair(sch, seed)
            s == DeriveKeyPairSeeds(sch, seed)
        IN  /\ ret' = [NoRet EXCEPT !.op = "DeriveKeyPair", !.sch = sch, !.buf = seed,
                                    !.outKey = r.pk, !.outKey2 = r.sk,
                                    !.panicked = r.panicked, !.calls = r.calls,
                                    !.in1 = IF Len(r.calls) >= 1 THEN s.first ELSE Nil,
                                    !.in2 = IF Len(r.calls) >= 2 THEN s.second ELSE Nil]
            /\ held' = IF r.panicked THEN held ELSE [pk |-> r.pk, sk |-> r.sk]
            /\ UNCHANGED edPub
            /\ UNCHANGED regVars

CallGenerateKeyPair ==
    \E sch \in Hybrids : \E rnd \in Seeds(SeedSize(sch)) : \E ok1, ok2 \in BOOLEAN :
        LET r == GenerateKeyPair(sch, rnd, ok1, ok2)
        IN  /\ ret' = [NoRet EXCEPT !.op = "GenerateKeyPair", !.sch = sch,
                                    !.outKey = r.pk, !.outKey2 = r.sk,
                                    !.err = r.err, !.calls = r.calls]
            /\ held' = IF r.err # "nil" THEN held ELSE [pk |-> r.pk, sk |-> r.sk]
            /\ UNCHANGED edPub
            /\ UNCHANGED regVars

CallEncapsulate ==
    \E sch \in Hybrids : \E pk \in PublicKeyInputs :
    \E seed \in Seeds(EncapsulationSeedSize(sch)) : \E ok \in BOOLEAN :
        LET r == Encapsulate(sch, pk, seed, ok)
        IN  /\ ret' = [NoRet EXCEPT !.op = "Encapsulate", !.sch = sch, !.key = pk,
                                    !.out1 = r.ct, !.out2 = r.ss,
                                    !.err = r.err, !.calls = r.calls]
            /\ UNCHANGED <<held, edPub>>
            /\ UNCHANGED regVars

CallEncapsulateDeterministically ==
    \E sch \in Hybrids : \E pk \in PublicKeyInputs :
    \E seed \in SeedInputs(EncapsulationSeedSize(sch)) :
        LET r == EncapsulateDeterministically(sch, pk, seed)
            s == EncapsulationSeeds(sch, seed)
        IN  /\ ret' = [NoRet EXCEPT !.op = "EncapsulateDeterministically", !.sch = sch,
                                    !.key = pk, !.buf = seed,
                                    !.out1 = r.ct, !.out2 = r.ss,
                                    !.err = r.err, !.calls = r.calls,
                                    !.in1 = IF Len(r.calls) >= 1 THEN s.first ELSE Nil,
                                    !.in2 = IF Len(r.calls) >= 2 THEN s.second ELSE Nil]
            /\ UNCHANGED <<held, edPub>>
            /\ UNCHANGED regVars

\* The ciphertext is the one just encapsulated (val: then key2, sch2 and out2
\* are that encapsulation's public key, scheme and shared secret), a variant
\* of it, or an arbitrary one.
CallDecapsulate ==
    \E sch \in Hybrids : \E sk \in PrivateKeyInputs :
    \E ct \in (IF LastEncapsulated THEN Variants(ret.out1) ELSE {})
              \cup SeedInputs(CiphertextSize(sch)) :
        LET r == Decapsulate(sch, sk, ct)
            fromEnc == LastEncapsulated /\ ct = ret.out1
        IN  /\ ret' = [NoRet EXCEPT !.op = "Decapsulate", !.sch = sch, !.key = sk,
                                    !.buf = ct, !.val = fromEnc,
                                    !.key2 = IF fromEnc THEN ret.key ELSE NilKey,
                                    !.sch2 = IF fromEnc THEN ret.sch ELSE "nil",
                                    !.out2 = IF fromEnc THEN ret.out2 ELSE Nil,
                                    !.out1 = r.ss, !.err = r.err, !.calls = r.calls]
            /\ UNCHANGED <<held, edPub>>
            /\ UNCHANGED regVars

CallPublicKeyMarshalBinary ==
    \E pk \in {held.pk, ZeroPublicKey} \ {NilKey} :
        LET r == PublicKeyMarshalBinary(pk)
        IN  /\ ret' = [NoRet EXCEPT !.op = "PublicKey.MarshalBinary", !.key = pk,
                                    !.out1 = r.bytes, !.err = r.err]
            /\ UNCHANGED <<held, edPub>>
            /\ UNCHANGED regVars

CallPrivateKeyMarshalBinary ==
    \E sk \in {held.sk, ZeroPrivateKey} \ {NilKey} :
        LET r == PrivateKeyMarshalBinary(sk)
        IN  /\ ret' = [NoRet EXCEPT !.op = "PrivateKey.MarshalBinary", !.key = sk,
                                    !.out1 = r.bytes, !.err = r.err]
            /\ UNCHANGED <<held, edPub>>
            /\ UNCHANGED regVars

\* The buffer is what was just marshalled (val: then key2 is the key it came
\* from), a variant of it, an arbitrary one, or one with an invalid first
\* component.
CallUnmarshalBinaryPublicKey ==
    \E sch \in Hybrids :
    \E buf \in (IF LastMarshalled("PublicKey.MarshalBinary") THEN Variants(ret.out1) ELSE {})
               \cup SeedInputs(PublicKeySize(sch))
               \cup {[i \in 1..PublicKeySize(sch) |-> 255]} :
        LET r == UnmarshalBinaryPublicKey(sch, buf)
            fromKey == LastMarshalled("PublicKey.MarshalBinary") /\ buf = ret.out1
        IN  /\ ret' = [NoRet EXCEPT !.op = "UnmarshalBinaryPublicKey", !.sch = sch,
                                    !.buf = buf, !.val = fromKey,
                                    !.key2 = IF fromKey THEN ret.key ELSE NilKey,
                                    !.outKey = r.key, !.err = r.err, !.calls = r.calls]
            /\ UNCHANGED <<held, edPub>>
            /\ UNCHANGED regVars

CallUnmarshalBinaryPrivateKey ==
    \E sch \in Hybrids :
    \E buf \in (IF LastMarshalled("PrivateKey.MarshalBinary") THEN Variants(ret.out1) ELSE {})
               \cup SeedInputs(PrivateKeySize(sch)) :
        LET r == UnmarshalBinaryPrivateKey(sch, buf)
            fromKey == LastMarshalled("PrivateKey.MarshalBinary") /\ buf = ret.out1
        IN  /\ ret' = [NoRet EXCEPT !.op = "UnmarshalBinaryPrivateKey", !.sch = sch,
                                    !.buf = buf, !.val = fromKey,
                                    !.key2 = IF fromKey THEN ret.key ELSE NilKey,
                                    !.outKey = r.key, !.err = r.err, !.calls = r.calls]
            /\ UNCHANGED <<held, edPub>>
            /\ UNCHANGED regVars

CallPublicKeyEqual ==
    \E pk \in {held.pk, ZeroPublicKey} \ {NilKey} :
    \E other \in PublicKeyInputs \cup {kp.pk : kp \in DerivedKeyPairs} :
        LET r == PublicKeyEqual(pk, other)
        IN  /\ ret' = [NoRet EXCEPT !.op = "PublicKey.Equal", !.key = pk, !.key2 = other,
                                    !.val = r.val, !.panicked = r.panicked]
            /\ UNCHANGED <<held, edPub>>
            /\ UNCHANGED regVars

CallPrivateKeyEqual ==
    \E sk \in {held.sk, ZeroPrivateKey} \ {NilKey} :
    \E other \in PrivateKeyInputs \cup {kp.sk : kp \in DerivedKeyPairs} :
        LET r == PrivateKeyEqual(sk, other)
        IN  /\ ret' = [NoRet EXCEPT !.op = "PrivateKey.Equal", !.key = sk, !.key2 = other,
                                    !.val = r.val, !.panicked = r.panicked]
            /\ UNCHANGED <<held, edPub>>
            /\ UNCHANGED regVars

\* The texts a caller passes to UnmarshalText after k.MarshalText() returned
\* text: the text, the text under another scheme's name, under the private
\* kind, with its last character lost, and the text of one byte less.
TextVariants(text) ==
    {text,
     <<"Z", text[2], text[3]>>,
     <<text[1], "PRIVATE KEY", text[3]>>,
     <<text[1], text[2], Take(text[3], Len(text[3]) - 1)>>,
     <<text[1], text[2],
       EncodeToString(Take(DecodeString(text[3]).bytes,
                           Len(DecodeString(text[3]).bytes) - 1))>>}

LastMarshalledText ==
    /\ ret.op = "PublicKey.MarshalText"
    /\ ~ret.panicked

CallMarshalText ==
    \E pk \in ({held.pk} \cup {kp.pk : kp \in DerivedKeyPairs}) \ {NilKey} :
        LET r == MarshalText(pk)
        IN  /\ ret' = [NoRet EXCEPT !.op = "PublicKey.MarshalText", !.key = pk,
                                    !.out1 = r.text, !.err = r.err,
                                    !.panicked = r.panicked]
            /\ UNCHANGED <<held, edPub>>
            /\ UNCHANGED regVars

\* p.UnmarshalText(text) on the public key p the caller holds; recv is p
\* before the call.  The text is the one just marshalled (val: then key2 is
\* the key it came from) or a variant of it.
CallUnmarshalText ==
    /\ held.pk # NilKey
    /\ LastMarshalledText
    /\ \E text \in TextVariants(ret.out1) :
           LET r == UnmarshalText(held.pk, text)
           IN  /\ ret' = [NoRet EXCEPT !.op = "PublicKey.UnmarshalText",
                                       !.sch = held.pk.sch, !.recv = held.pk,
                                       !.buf = text, !.val = (text = ret.out1),
                                       !.key2 = ret.key, !.outKey = r.sk,
                                       !.err = r.err]
               /\ held' = [held EXCEPT !.pk = r.recv]
               /\ UNCHANGED edPub
               /\ UNCHANGED regVars

-----------------------------------------------------------------------------
(* The calls into package ed25519.                                         *)

EdData(n) == {[i \in 1..n |-> (7 * i + b) % 256] : b \in {0, 1}}
EdPublicBuffers ==
    {Nil} \cup EdData(EdPublicKeySize - 1) \cup EdData(EdPublicKeySize)
          \cup EdData(EdPublicKeySize + 1)
EdPrivateBuffers ==
    {Nil} \cup EdData(EdPrivateKeySize - 1) \cup EdData(EdPrivateKeySize)
          \cup EdData(EdPrivateKeySize + 1)

\* A public key of another signature scheme.
OtherSignKey == [typ |-> "sphincsplus.PublicKey", bytes |-> Seed(0, 2)]

\* Values of type sign.PublicKey a caller can pass to Equal.
SignKeyInputs ==
    {edPub, NilKey, OtherSignKey}
    \cup {FromBytes(EdZeroPublicKey, d).key : d \in EdData(EdPublicKeySize)}

\* p.FromBytes(data) on the caller's key; recv is the key before the call.
CallFromBytes ==
    \E data \in EdPublicBuffers :
        LET r == FromBytes(edPub, data)
        IN  /\ edPub' = r.key
            /\ ret' = [NoRet EXCEPT !.op = "ed25519.FromBytes", !.buf = data,
                                    !.recv = edPub, !.err = r.err]
            /\ UNCHANGED held
            /\ UNCHANGED regVars

CallReset ==
    /\ edPub' = Reset(edPub)
    /\ ret' = [NoRet EXCEPT !.op = "ed25519.Reset", !.recv = edPub]
    /\ UNCHANGED held
    /\ UNCHANGED regVars

CallEdUnmarshalBinaryPublicKey ==
    \E b \in EdPublicBuffers :
        LET r == EdUnmarshalBinaryPublicKey(b)
        IN  /\ ret' = [NoRet EXCEPT !.op = "ed25519.UnmarshalBinaryPublicKey",
                                    !.buf = b, !.outKey = r.key, !.err = r.err]
            /\ UNCHANGED <<held, edPub>>
            /\ UNCHANGED regVars

CallEdUnmarshalBinaryPrivateKey ==
    \E b \in EdPrivateBuffers :
        LET r == EdUnmarshalBinaryPrivateKey(b)
        IN  /\ ret' = [NoRet EXCEPT !.op = "ed25519.UnmarshalBinaryPrivateKey",
                                    !.buf = b, !.outKey = r.key, !.err = r.err]
            /\ UNCHANGED <<held, edPub>>
            /\ UNCHANGED regVars

CallEdEqual ==
    \E other \in SignKeyInputs :
        LET r == EdEqual(edPub, other)
        IN  /\ ret' = [NoRet EXCEPT !.op = "ed25519.Equal", !.key = edPub,
                                    !.key2 = other, !.val = r.val,
                                    !.panicked = r.panicked]
            /\ UNCHANGED <<held, edPub>>
            /\ UNCHANGED regVars

-----------------------------------------------------------------------------
(* The calls into package schemes.                                         *)

\* The names callers look up: every registered name as written, in lower
\* and in upper case, and names that are not registered.
RegisteredNames ==
    {allSchemesNames[i] : i \in 1..Len(allSchemesNames)}
    \cup {potentialSchemesNames[i] : i \in 1..Len(potentialSchemesNames)}
NameInputs ==
    RegisteredNames \cup {ToLower(n) : n \in RegisteredNames}
    \cup {ToUpper(n) : n \in RegisteredNames}
    \cup {<< >>, <<110, 111, 115, 117, 99, 104>>, ForeignName}

NoRRet == [op |-> "none", name |-> << >>, sch |-> NilScheme, list |-> << >>]

\* The Go runtime runs init() once, before any call into the package.
init ==
    /\ ~initDone
    /\ LET r == PackageInit(heap, allSchemes)
       IN  /\ heap' = r.heap
           /\ allSchemes' = r.slice
           /\ allSchemeNames' = r.names
    /\ initDone' = TRUE
    /\ rret' = [NoRRet EXCEPT !.op = "init"]
    /\ UNCHANGED <<callerSlice, firstAll, nWrites>>
    /\ UNCHANGED kemVars

CallByName ==
    /\ initDone
    /\ \E name \in NameInputs :
           rret' = [NoRRet EXCEPT !.op = "ByName", !.name = name,
                                  !.sch = ByName(allSchemeNames, name)]
    /\ UNCHANGED <<initDone, heap, allSchemes, allSchemeNames, callerSlice,
                   firstAll, nWrites>>
    /\ UNCHANGED kemVars

CallAll ==
    /\ initDone
    /\ LET a == All(allSchemes)
       IN  /\ callerSlice' = [has |-> TRUE, s |-> a]
           /\ rret' = [NoRRet EXCEPT !.op = "All", !.list = Elems(heap, a)]
           /\ firstAll' = IF firstAll.has THEN firstAll
                          ELSE [has |-> TRUE, val |-> Elems(heap, a)]
    /\ UNCHANGED <<initDone, heap, allSchemes, allSchemeNames, nWrites>>
    /\ UNCHANGED kemVars

\* A caller assigns to an element of the slice All() returned: a[i] = x.
CallerWrite ==
    /\ callerSlice.has
    /\ nWrites < MaxWrites
    /\ \E i \in {1, callerSlice.s.len} : \E x \in {NilScheme, ForeignScheme} :
           heap' = [heap EXCEPT ![callerSlice.s.ptr][i] = x]
    /\ nWrites' = nWrites + 1
    /\ rret' = [NoRRet EXCEPT !.op = "write"]
    /\ UNCHANGED <<initDone, allSchemes, allSchemeNames, callerSlice, firstAll>>
    /\ UNCHANGED kemVars

-----------------------------------------------------------------------------
(* The specifications.                                                     *)

Init ==
    /\ held = [pk |-> NilKey, sk |-> NilKey]
    /\ ret = NoRet
    /\ edPub = EdZeroPublicKey
    /\ initDone = FALSE
    /\ heap = [p \in {"lit", "grown"} |-> IF p = "lit" THEN allSchemesLiteral ELSE << >>]
    /\ allSchemes = [ptr |-> "lit", len |-> Len(allSchemesLiteral),
                     cap |-> Len(allSchemesLiteral)]
    /\ allSchemeNames = EmptyMap
    /\ callerSlice = [has |-> FALSE, s |-> [ptr |-> "lit", len |-> 0, cap |-> 0]]
    /\ firstAll = [has |-> FALSE, val |-> << >>]
    /\ nWrites = 0
    /\ rret = NoRRet

\* The hybrid KEM.
Next ==
    \/ CallDeriveKeyPair
    \/ CallGenerateKeyPair
    \/ CallEncapsulate
    \/ CallEncapsulateDeterministically
    \/ CallDecapsulate
    \/ CallPublicKeyMarshalBinary
    \/ CallPrivateKeyMarshalBinary
    \/ CallUnmarshalBinaryPublicKey
    \/ CallUnmarshalBinaryPrivateKey
    \/ CallPublicKeyEqual
    \/ CallPrivateKeyEqual

Spec == Init /\ [][Next]_vars

\* The keys of package hybrid and of package ed25519.
KeysNext ==
    \/ CallDeriveKeyPair
    \/ CallPublicKeyMarshalBinary
    \/ CallPrivateKeyMarshalBinary
    \/ CallUnmarshalBinaryPublicKey
    \/ CallUnmarshalBinaryPrivateKey
    \/ CallPublicKeyEqual
    \/ CallPrivateKeyEqual
    \/ CallFromBytes
    \/ CallReset
    \/ CallEdUnmarshalBinaryPublicKey
    \/ CallEdUnmarshalBinaryPrivateKey
    \/ CallEdEqual

SpecKeys == Init /\ [][KeysNext]_vars

\* The text form of the hybrid public keys.
TextNext ==
    \/ CallDeriveKeyPair
    \/ CallMarshalText
    \/ CallUnmarshalText

SpecText == Init /\ [][TextNext]_vars

\* The registry of package schemes.
RegistryNext ==
    \/ init
    \/ CallByName
    \/ CallAll
    \/ CallerWrite

SpecRegistry == Init /\ [][RegistryNext]_vars

-----------------------------------------------------------------------------
(* The properties.                                                         *)

\* The last call was Decapsulate(S, sk, ct) with (pk, sk) the held key pair
\* of scheme S and ct the ciphertext S just encapsulated to pk.
DecapsulatedOwn ==
    /\ ret.op = "Decapsulate"
    /\ ret.val
    /\ ret.sch2 = ret.sch
    /\ held.pk # NilKey
    /\ held.pk.sch = ret.sch
    /\ ret.key = held.sk
    /\ ret.key2 = held.pk

\* C1: round trip of the hybrid scheme.  For a key pair (pk, sk) of scheme S
\* from DeriveKeyPair or GenerateKeyPair, decapsulating with sk the
\* ciphertext that S encapsulated to pk succeeds and returns the shared
\* secret the encapsulation returned.
C1_RoundTrip ==
    DecapsulatedOwn => ret.err = "nil" /\ ret.out1 = ret.out2

\* A round trip through a scheme whose two components differ in size.
C1_Witness ==
    /\ DecapsulatedOwn
    /\ ret.err = "nil"
    /\ Len(ret.out1) = HashSize
    /\ KemCiphertextSize(First(ret.sch)) # KemCiphertextSize(Second(ret.sch))

\* What k.Scheme() returns for a key that is not the nil interface.
KeyScheme(k) == k.sch

\* The last call was an encapsulation (a decapsulation) of scheme S with a
\* seed (a ciphertext) of the right length and a key whose Scheme() is not S.
EncapsulatedForeign ==
    /\ ret.op \in EncapsulationOps
    /\ ret.err # "ErrRand"
    /\ ret.op = "EncapsulateDeterministically"
           => Len(ret.buf) = EncapsulationSeedSize(ret.sch)
    /\ ret.key # NilKey
    /\ KeyScheme(ret.key) # ret.sch
DecapsulatedForeign ==
    /\ ret.op = "Decapsulate"
    /\ Len(ret.buf) = CiphertextSize(ret.sch)
    /\ ret.key # NilKey
    /\ KeyScheme(ret.key) # ret.sch

\* C2: cross-scheme operations are rejected.  An encapsulation by scheme S
\* to a public key whose Scheme() is not S, and a decapsulation by S with a
\* private key whose Scheme() is not S, return ErrTypeMismatch, also when the
\* key is one of another hybrid scheme.
C2_CrossSchemeRejected ==
    (EncapsulatedForeign \/ DecapsulatedForeign) => ret.err = "ErrTypeMismatch"

\* The last call encapsulated or decapsulated without error.
SharedSecretReturned ==
    /\ ret.op \in EncapsulationOps \cup {"Decapsulate"}
    /\ ret.err = "nil"

\* The shared secret the last call returned.
SharedSecret == IF ret.op = "Decapsulate" THEN ret.out1 ELSE ret.out2

\* C3: the shared secret of a hybrid scheme is 32 bytes, and SharedKeySize()
\* is 32 and is the length of every shared secret that encapsulation and
\* decapsulation return.
C3_SharedKeySize ==
    SharedSecretReturned =>
        /\ SharedKeySize(ret.sch) = 32
        /\ Len(SharedSecret) = SharedKeySize(ret.sch)

\* The part of C3 the code meets: the returned shared secret is 32 bytes.
SharedSecretIs32Bytes ==
    SharedSecretReturned => Len(SharedSecret) = 32

\* C4: unmarshalling a buffer of the wrong length fails and yields no key.
\* The hybrid UnmarshalBinaryPublicKey and UnmarshalBinaryPrivateKey return a
\* nil key and the key-size error without invoking a component; the ed25519
\* scheme's UnmarshalBinaryPublicKey and UnmarshalBinaryPrivateKey return a
\* nil key and errInvalidKey; ed25519 FromBytes returns errInvalidKey and
\* leaves the receiving key as it was.
C4_WrongLengthRejected ==
    /\ (ret.op = "UnmarshalBinaryPublicKey" /\ Len(ret.buf) # PublicKeySize(ret.sch))
           => ret.outKey = NilKey /\ ret.err = "ErrPubKeySize" /\ ret.calls = << >>
    /\ (ret.op = "UnmarshalBinaryPrivateKey" /\ Len(ret.buf) # PrivateKeySize(ret.sch))
           => ret.outKey = NilKey /\ ret.err = "ErrPrivKeySize" /\ ret.calls = << >>
    /\ (ret.op = "ed25519.UnmarshalBinaryPublicKey" /\ Len(ret.buf) # EdPublicKeySize)
           => ret.outKey = NilKey /\ ret.err = "errInvalidKey"
    /\ (ret.op = "ed25519.UnmarshalBinaryPrivateKey" /\ Len(ret.buf) # EdPrivateKeySize)
           => ret.outKey = NilKey /\ ret.err = "errInvalidKey"
    /\ (ret.op = "ed25519.FromBytes" /\ Len(ret.buf) # EdPublicKeySize)
           => ret.err = "errInvalidKey" /\ edPub = ret.recv

\* A hybrid public key one byte too long was refused.
C4_Witness ==
    /\ ret.op = "UnmarshalBinaryPublicKey"
    /\ Len(ret.buf) = PublicKeySize(ret.sch) + 1
    /\ ret.err = "ErrPubKeySize"

\* The last call unmarshalled, with the key's own scheme, the bytes that a
\* fully initialised key (key2) had just marshalled to.
UnmarshalledOwn(op) ==
    /\ ret.op = op
    /\ ret.val
    /\ KeyScheme(ret.key2) = ret.sch

\* The last call marshalled a fully initialised key.
MarshalledInitialised(op) ==
    /\ ret.op = op
    /\ ret.key.first # NilKey
    /\ ret.key.second # NilKey

\* C5: binary marshal/unmarshal round trip with the unframed layout.  A fully
\* initialised hybrid key of scheme S marshals to its first component's bytes
\* followed by its second component's, PublicKeySize() (PrivateKeySize())
\* bytes in all; S unmarshals these bytes to a key that is Equal to the
\* original and marshals to the same bytes.
C5_MarshalRoundTrip ==
    /\ MarshalledInitialised("PublicKey.MarshalBinary") =>
           /\ ret.err = "nil"
           /\ ret.out1 = ret.key.first.bytes \o ret.key.second.bytes
           /\ Len(ret.out1) = PublicKeySize(KeyScheme(ret.key))
    /\ MarshalledInitialised("PrivateKey.MarshalBinary") =>
           /\ ret.err = "nil"
           /\ ret.out1 = ret.key.first.bytes \o ret.key.second.bytes
           /\ Len(ret.out1) = PrivateKeySize(KeyScheme(ret.key))
    /\ UnmarshalledOwn("UnmarshalBinaryPublicKey") =>
           /\ ret.err = "nil"
           /\ PublicKeyEqual(ret.outKey, ret.key2) = [val |-> TRUE, panicked |-> FALSE]
           /\ PublicKeyMarshalBinary(ret.outKey) = [bytes |-> ret.buf, err |-> "nil"]
    /\ UnmarshalledOwn("UnmarshalBinaryPrivateKey") =>
           /\ ret.err = "nil"
           /\ PrivateKeyEqual(ret.outKey, ret.key2) = [val |-> TRUE, panicked |-> FALSE]
           /\ PrivateKeyMarshalBinary(ret.outKey) = [bytes |-> ret.buf, err |-> "nil"]

\* A public key came back from its own bytes, its components differing in size.
C5_Witness ==
    /\ UnmarshalledOwn("UnmarshalBinaryPublicKey")
    /\ ret.err = "nil"
    /\ ret.outKey = ret.key2
    /\ KemPublicKeySize(First(ret.sch)) # KemPublicKeySize(Second(ret.sch))

\* The last call was DeriveKeyPair with a seed of the wrong length.
DerivedWrongLength ==
    /\ ret.op = "DeriveKeyPair"
    /\ Len(ret.buf) # SeedSize(ret.sch)

\* C8 as stated: DeriveKeyPair with a seed of the wrong length ends in a
\* reported error value, does not panic and invokes neither component.
C8_WrongSeedIsErrorValue ==
    DerivedWrongLength =>
        /\ ~ret.panicked
        /\ ret.err # "nil"
        /\ ret.calls = << >>

\* C8 as amended: DeriveKeyPair with a seed of the wrong length panics; it
\* returns no key pair and invokes neither component's DeriveKeyPair.
C8_WrongSeedPanics ==
    DerivedWrongLength =>
        /\ ret.panicked
        /\ ret.outKey = NilKey
        /\ ret.outKey2 = NilKey
        /\ ret.calls = << >>

\* A seed one byte too long made DeriveKeyPair panic.
C8_Witness ==
    /\ ret.op = "DeriveKeyPair"
    /\ Len(ret.buf) = SeedSize(ret.sch) + 1
    /\ ret.panicked

\* The last call reached the first component, and what that component returned.
ReachedFirstEncapsulation ==
    /\ ret.op = "EncapsulateDeterministically"
    /\ Len(ret.buf) = EncapsulationSeedSize(ret.sch)
    /\ ret.key.typ = HybridPublicKeyType
ReachedFirstDecapsulation ==
    /\ ret.op = "Decapsulate"
    /\ Len(ret.buf) = CiphertextSize(ret.sch)
    /\ ret.key.typ = HybridPrivateKeyType
FirstEncapsulation ==
    KemEncapsulateDeterministically(First(ret.sch), ret.key.first,
        Take(ret.buf, KemEncapsulationSeedSize(First(ret.sch))))
FirstDecapsulation ==
    KemDecapsulate(First(ret.sch), ret.key.first,
        Take(ret.buf, KemCiphertextSize(First(ret.sch))))

\* C9: the length errors of the hybrid KEM.  EncapsulateDeterministically
\* with a seed of the wrong length returns (nil, nil, ErrSeedSize) and
\* Decapsulate with a ciphertext of the wrong length returns
\* (nil, ErrCiphertextSize), whatever the type of the key, and no component
\* is invoked.  When the first component fails, its error is returned, the
\* second component is not invoked and no ciphertext or secret is returned.
C9_LengthErrors ==
    /\ (ret.op = "EncapsulateDeterministically"
            /\ Len(ret.buf) # EncapsulationSeedSize(ret.sch)) =>
           /\ ret.out1 = Nil /\ ret.out2 = Nil
           /\ ret.err = "ErrSeedSize"
           /\ ret.calls = << >>
    /\ (ret.op = "Decapsulate" /\ Len(ret.buf) # CiphertextSize(ret.sch)) =>
           /\ ret.out1 = Nil
           /\ ret.err = "ErrCiphertextSize"
           /\ ret.calls = << >>
    /\ (ReachedFirstEncapsulation /\ FirstEncapsulation.err # "nil") =>
           /\ ret.out1 = Nil /\ ret.out2 = Nil
           /\ ret.err = FirstEncapsulation.err
           /\ ret.calls = << <<First(ret.sch), "EncapsulateDeterministically">> >>
    /\ (ReachedFirstDecapsulation /\ FirstDecapsulation.err # "nil") =>
           /\ ret.out1 = Nil
           /\ ret.err = FirstDecapsulation.err
           /\ ret.calls = << <<First(ret.sch), "Decapsulate">> >>

\* A seed of the wrong length came with a key of a foreign type.
C9_Witness ==
    /\ ret.op = "EncapsulateDeterministically"
    /\ Len(ret.buf) # EncapsulationSeedSize(ret.sch)
    /\ ret.key.typ \notin {HybridPublicKeyType, "nil"}
    /\ ret.err = "ErrSeedSize"

\* The first component refused its share of a well-sized call.
FirstComponentFailed ==
    /\ ReachedFirstEncapsulation
    /\ FirstEncapsulation.err # "nil"
    /\ ret.err = FirstEncapsulation.err

HybridKeyTypes == {HybridPublicKeyType, HybridPrivateKeyType}
\* A key with all its parts, as the constructors and unmarshallers return it.
RECURSIVE Initialised(_)
Initialised(k) ==
    /\ k # NilKey
    /\ k.typ \in HybridKeyTypes => Initialised(k.first) /\ Initialised(k.second)
    /\ k.typ = EdPublicKeyType => Len(k.pubKey) = EdPublicKeySize

\* b is a key of another concrete type, or of another scheme, than a.
OtherKind(a, b) ==
    \/ b.typ # a.typ
    \/ a.typ \in HybridKeyTypes /\ b.sch # a.sch

EqualOps == {"ed25519.Equal", "PublicKey.Equal", "PrivateKey.Equal"}

\* C10: a.Equal(b) returns a boolean for every key b and never panics, and
\* it returns false when b is a key of another scheme or concrete type
\* than a; for ed25519 PublicKey.Equal and the hybrid PublicKey.Equal and
\* PrivateKey.Equal.
C10_EqualNeverFails ==
    (ret.op \in EqualOps /\ Initialised(ret.key) /\ Initialised(ret.key2)) =>
        /\ ~ret.panicked
        /\ OtherKind(ret.key, ret.key2) => ~ret.val

\* The same of the hybrid keys alone.
HybridEqualNeverFails ==
    (ret.op \in EqualOps \ {"ed25519.Equal"}
         /\ Initialised(ret.key) /\ Initialised(ret.key2)) =>
        /\ ~ret.panicked
        /\ OtherKind(ret.key, ret.key2) => ~ret.val

\* What All() returns now, and the places of it that hold a scheme whose
\* name is n up to letter case.
Enumerated == Elems(heap, All(allSchemes))
NamedLike(n) ==
    {i \in 1..Len(Enumerated) :
        /\ Enumerated[i] # NilScheme
        /\ ToLower(SchemeName(Enumerated[i])) = ToLower(n)}

LookedUp ==
    /\ initDone
    /\ rret.op = "ByName"

\* C6: the registry lookup is case-insensitive, total and unambiguous.  After
\* init, ByName(n) returns the scheme of All() whose name is n up to letter
\* case, the same instance for every such scheme, and nil when All() has no
\* such scheme; every non-nil entry of potentialSchemes is in All().
C6_LookupTotal ==
    /\ LookedUp =>
           IF NamedLike(rret.name) # {}
           THEN \A i \in NamedLike(rret.name) : rret.sch = Enumerated[i]
           ELSE rret.sch = NilScheme
    /\ initDone =>
           \A j \in 1..Len(potentialSchemes) :
               potentialSchemes[j] # NilScheme =>
                   \E i \in 1..Len(Enumerated) : Enumerated[i] = potentialSchemes[j]

\* The same while no caller has written into a slice All() returned.
LookupTotalBeforeWrites == nWrites = 0 => C6_LookupTotal

\* C7: the registry is immutable after init.  Whatever callers write into the
\* values ByName and All returned, every later All() returns the sequence of
\* instances the first All() returned, and ByName(n) the instance it
\* returned before.
C7_RegistryImmutable ==
    /\ (rret.op = "All" /\ firstAll.has) => rret.list = firstAll.val
    /\ (rret.op = "ByName" /\ firstAll.has) =>
           rret.sch = ByName(FillNames(EmptyMap, firstAll.val, 1), rret.name)

\* The last call handed a seed to both components: n1 is the size of the
\* first component's seed and SeedsOf(s) what the call hands over for seed s.
ComponentsSeeded ==
    /\ ret.op \in {"DeriveKeyPair", "EncapsulateDeterministically"}
    /\ Len(ret.calls) = 2
FirstSeedSize ==
    IF ret.op = "DeriveKeyPair" THEN KemSeedSize(First(ret.sch))
    ELSE KemEncapsulationSeedSize(First(ret.sch))
SeedsOf(s) ==
    IF ret.op = "DeriveKeyPair" THEN DeriveKeyPairSeeds(ret.sch, s)
    ELSE EncapsulationSeeds(ret.sch, s)

\* The seeds that differ from s in one byte at a position after the first n.
TailVariants(s, n) ==
    {[s EXCEPT ![i] = (s[i] + d) % 256] : i \in (n + 1)..Len(s), d \in {1, 128}}

\* C11: DeriveKeyPair and EncapsulateDeterministically expand the seed before
\* they hand bytes to the components.  The seed a component receives is not
\* a raw slice of the caller's seed, and the first component's seed depends
\* on the whole seed: some seed that differs only after the first
\* component's share gives the first component another seed.
C11_SeedExpanded ==
    ComponentsSeeded =>
        /\ ret.in1 # Take(ret.buf, FirstSeedSize)
        /\ ret.in2 # Drop(ret.buf, FirstSeedSize)
        /\ \E s \in TailVariants(ret.buf, FirstSeedSize) : SeedsOf(s).first # ret.in1

\* The components receive the caller's seed cut in two, as it is.
SeedIsCutInTwo ==
    ComponentsSeeded =>
        /\ ret.in1 \o ret.in2 = ret.buf
        /\ Len(ret.in1) = FirstSeedSize
        /\ \A s \in TailVariants(ret.buf, FirstSeedSize) : SeedsOf(s).first = ret.in1

\* The last call was p.UnmarshalText(k.MarshalText()) for a key k (key2) of
\* the scheme of p.
UnmarshalledTextOf ==
    /\ ret.op = "PublicKey.UnmarshalText"
    /\ ret.val
    /\ KeyScheme(ret.key2) = KeyScheme(ret.recv)

\* C12: text unmarshal loads the key into the receiver.  When
\* p.UnmarshalText(k.MarshalText()) returns nil for a key k of p's scheme,
\* the caller's p holds the decoded key afterwards: p.Equal(k) is true and
\* p.MarshalBinary() equals k.MarshalBinary(); when UnmarshalText returns an
\* error, p is unchanged.
C12_TextLoadsReceiver ==
    /\ (UnmarshalledTextOf /\ ret.err = "nil") =>
           /\ PublicKeyEqual(held.pk, ret.key2) = [val |-> TRUE, panicked |-> FALSE]
           /\ PublicKeyMarshalBinary(held.pk) = PublicKeyMarshalBinary(ret.key2)
    /\ (ret.op = "PublicKey.UnmarshalText" /\ ret.err # "nil") => held.pk = ret.recv

\* UnmarshalText decodes the key, into its own variable, and leaves the
\* caller's key as it was.
UnmarshalTextLeavesReceiver ==
    /\ ret.op = "PublicKey.UnmarshalText" => held.pk = ret.recv
    /\ (UnmarshalledTextOf /\ ret.err = "nil") => ret.outKey = ret.key2
    /\ UnmarshalledTextOf => ret.err = "nil"

=============================================================================
